---- MODULE Spec2Model ----
(***************************************************************************)
(* Model of src/octoprint/_version.py: the version resolution chain        *)
(* get_data() (static file, expanded git keywords, git checkout), the      *)
(* branch rule parser _parse_branch_versions(), the template composition   *)
(* of _get_data_from_git() and the PEP 440 validator.                      *)
(*                                                                         *)
(* Python strings are sequences of one-character strings, so that          *)
(* stripping, splitting, formatting and regular expression matching are    *)
(* computed character by character as the code computes them.  An optional *)
(* value (a Python value that may be None) is None == <<>> or Some(v) ==   *)
(* <<v>>.  A format template is a sequence whose elements are characters   *)
(* and placeholders such as "{tag}".                                       *)
(***************************************************************************)
EXTENDS Integers, Sequences, FiniteSets, TLC

VARIABLES
    pc,          \* position of get_data() in its loop over the three methods
    staticFile,  \* _static_version.py: whether it can be read, and what exec() binds
    keywords,    \* the two keyword markers of _get_data_from_keywords, as found in the file
    config,      \* the text of BRANCH_VERSIONS
    git,         \* what each git query answered, once _get_data_from_git has run
    consulted,   \* the methods get_data() has called so far, in call order
    yielded,     \* what each called method returned (None or Some(data))
    composed,    \* locals of _get_data_from_git at line 296: template, is_dirty, version, ...
    status,      \* "running", "returned" or "raised" (an exception left get_data)
    data,        \* the dict get_data() returned
    rules        \* ParseSpec only: the result of _parse_branch_versions()

vars == <<pc, staticFile, keywords, config, git, consulted, yielded, composed,
          status, data, rules>>

----------------------------------------------------------------------------
(* Optional values *)

None == <<>>

Some(v) == <<v>>

IsNone(o) == Len(o) = 0

Get(o) == o[1]

----------------------------------------------------------------------------
(* Characters and Python's str methods *)

Digits == {"0", "1", "2", "3", "4", "5", "6", "7", "8", "9"}

LowerLetters == <<"a", "b", "c", "d", "e", "f", "g", "h", "i", "j", "k", "l", "m",
                  "n", "o", "p", "q", "r", "s", "t", "u", "v", "w", "x", "y", "z">>

UpperLetters == <<"A", "B", "C", "D", "E", "F", "G", "H", "I", "J", "K", "L", "M",
                  "N", "O", "P", "Q", "R", "S", "T", "U", "V", "W", "X", "Y", "Z">>

Range(f) == {f[i] : i \in DOMAIN f}

\* re.IGNORECASE: a character is compared through its lower-case form
ToLower == [c \in Range(UpperLetters) |->
               LowerLetters[CHOOSE i \in DOMAIN UpperLetters : UpperLetters[i] = c]]

LowerOf(c) == IF c \in DOMAIN ToLower THEN ToLower[c] ELSE c

\* the characters str.strip() and str.split() treat as whitespace, and \s
Whitespace == {" ", "\t", "\n", "\r", "\f"}

\* code point order of the characters the model's strings use (for sorted())
CharOrder == <<"\t", "\n", "\f", "\r", " ", "#", "$", "%", "(", ")", "*", "+", ",",
               "-", ".", "/">>
             \o <<"0", "1", "2", "3", "4", "5", "6", "7", "8", "9", ":", ">">>
             \o UpperLetters \o <<"_">> \o LowerLetters

Ord(c) == CHOOSE i \in DOMAIN CharOrder : CharOrder[i] = c

\* s < t in Python's string order
RECURSIVE StrLess(_, _)
StrLess(s, t) ==
    IF Len(t) = 0 THEN FALSE
    ELSE IF Len(s) = 0 THEN TRUE
    ELSE IF s[1] = t[1] THEN StrLess(Tail(s), Tail(t))
    ELSE Ord(s[1]) < Ord(t[1])

StartsWith(s, w) == Len(w) <= Len(s) /\ SubSeq(s, 1, Len(w)) = w

EndsWith(s, w) == Len(w) <= Len(s) /\ SubSeq(s, Len(s) - Len(w) + 1, Len(s)) = w

\* s.strip(chars)
RECURSIVE SkipLeft(_, _, _)
SkipLeft(s, i, chars) ==
    IF i <= Len(s) /\ s[i] \in chars THEN SkipLeft(s, i + 1, chars) ELSE i

RECURSIVE SkipRight(_, _, _)
SkipRight(s, i, chars) ==
    IF i >= 1 /\ s[i] \in chars THEN SkipRight(s, i - 1, chars) ELSE i

StripChars(s, chars) == SubSeq(s, SkipLeft(s, 1, chars), SkipRight(s, Len(s), chars))

\* s.strip()
Strip(s) == StripChars(s, Whitespace)

\* the first index from i on at which s holds a character of chars, Len(s) + 1 if none
RECURSIVE Find(_, _, _)
Find(s, i, chars) ==
    IF i <= Len(s) /\ s[i] \notin chars THEN Find(s, i + 1, chars) ELSE i

\* s.index(c), for a c that occurs in s
IndexOf(s, c) == Find(s, 1, {c})

\* s.split(sep) for a one-character separator: empty pieces are kept
RECURSIVE Split(_, _)
Split(s, sep) ==
    LET i == Find(s, 1, {sep})
    IN  IF i > Len(s) THEN <<s>>
        ELSE <<SubSeq(s, 1, i - 1)>> \o Split(SubSeq(s, i + 1, Len(s)), sep)

\* s.split(): pieces between runs of whitespace, no empty piece
RECURSIVE SplitWhitespace(_)
SplitWhitespace(s) ==
    LET t == Strip(s)
        i == Find(t, 1, Whitespace)
    IN  IF t = <<>> THEN <<>>
        ELSE IF i > Len(t) THEN <<t>>
        ELSE <<SubSeq(t, 1, i - 1)>> \o SplitWhitespace(SubSeq(t, i + 1, Len(t)))

\* s.splitlines(): the lines of s; a final line break opens no further line
SplitLines(s) ==
    LET pieces == Split(s, "\n")
    IN  IF pieces[Len(pieces)] = <<>> THEN SubSeq(pieces, 1, Len(pieces) - 1)
        ELSE pieces

\* str(n) for an integer n >= 0
RECURSIVE IntToStr(_)
IntToStr(n) ==
    LET digit == <<"0", "1", "2", "3", "4", "5", "6", "7", "8", "9">>[(n % 10) + 1]
    IN  IF n < 10 THEN <<digit>> ELSE IntToStr(n \div 10) \o <<digit>>

\* int(s) for a string of decimal digits
RECURSIVE StrToInt(_)
StrToInt(s) ==
    LET value(c) == CHOOSE d \in 0..9 : IntToStr(d) = <<c>>
    IN  IF Len(s) = 1 THEN value(s[1])
        ELSE 10 * StrToInt(SubSeq(s, 1, Len(s) - 1)) + value(s[Len(s)])

----------------------------------------------------------------------------
(* PEP440_REGEX and _validate_version.  Each part of the expression maps   *)
(* the set P of positions of s at which it may start to the set of         *)
(* positions at which it may end, which follows every choice the           *)
(* backtracking matcher can make.                                          *)

\* one character of class C
Ch(s, P, C) == {p + 1 : p \in {q \in P : q <= Len(s) /\ LowerOf(s[q]) \in C}}

\* the end of the longest run of characters of class C that starts at p
RECURSIVE RunEnd(_, _, _)
RunEnd(s, p, C) ==
    IF p <= Len(s) /\ LowerOf(s[p]) \in C THEN RunEnd(s, p + 1, C) ELSE p

\* C*
Many(s, P, C) == UNION {p..RunEnd(s, p, C) : p \in P}

\* C+
Many1(s, P, C) == Many(s, Ch(s, P, C), C)

\* the literal word w
Word(s, P, w) ==
    {p + Len(w) : p \in {q \in P : q + Len(w) - 1 <= Len(s)
                                   /\ \A i \in 1..Len(w) : LowerOf(s[q + i - 1]) = w[i]}}

\* one of the words of W
AnyWord(s, P, W) == UNION {Word(s, P, w) : w \in W}

Separators == {"-", "_", "."}

AlphaNum == Digits \cup Range(LowerLetters)

\* (?:(?P<epoch>[0-9]+)!)?
Epoch(s, P) == P \cup Ch(s, Many1(s, P, Digits), {"!"})

\* (?:\.[0-9]+)* after a position set
RECURSIVE DottedNumbers(_, _)
DottedNumbers(s, P) ==
    LET more == Many1(s, Ch(s, P, {"."}), Digits) \ P
    IN  IF more = {} THEN P ELSE DottedNumbers(s, P \cup more)

\* (?P<release>[0-9]+(?:\.[0-9]+)*)
Release(s, P) == DottedNumbers(s, Many1(s, P, Digits))

PreLabels == {<<"a">>, <<"b">>, <<"c">>, <<"r", "c">>, <<"a", "l", "p", "h", "a">>,
              <<"b", "e", "t", "a">>, <<"p", "r", "e">>,
              <<"p", "r", "e", "v", "i", "e", "w">>}

\* (?P<pre>[-_\.]?(a|b|c|rc|alpha|beta|pre|preview)[-_\.]?(?P<pre_n>[0-9]+)?)?
Pre(s, P) ==
    LET label == AnyWord(s, P \cup Ch(s, P, Separators), PreLabels)
    IN  P \cup Many(s, label \cup Ch(s, label, Separators), Digits)

PostLabels == {<<"p", "o", "s", "t">>, <<"r", "e", "v">>, <<"r">>}

\* (?P<post>(?:-[0-9]+)|(?:[-_\.]?(post|rev|r)[-_\.]?(?P<post_n2>[0-9]+)?))?
Post(s, P) ==
    LET label == AnyWord(s, P \cup Ch(s, P, Separators), PostLabels)
    IN  P \cup Many1(s, Ch(s, P, {"-"}), Digits)
          \cup Many(s, label \cup Ch(s, label, Separators), Digits)

\* (?P<dev>[-_\.]?(dev)[-_\.]?(?P<dev_n>[0-9]+)?)?
Dev(s, P) ==
    LET label == Word(s, P \cup Ch(s, P, Separators), <<"d", "e", "v">>)
    IN  P \cup Many(s, label \cup Ch(s, label, Separators), Digits)

\* (?:[-_\.][a-z0-9]+)* after a position set
RECURSIVE LocalSegments(_, _)
LocalSegments(s, P) ==
    LET more == Many1(s, Ch(s, P, Separators), AlphaNum) \ P
    IN  IF more = {} THEN P ELSE LocalSegments(s, P \cup more)

\* (?:\+(?P<local>[a-z0-9]+(?:[-_\.][a-z0-9]+)*))?
Local(s, P) == P \cup LocalSegments(s, Many1(s, Ch(s, P, {"+"}), AlphaNum))

\* ^\s*v?  epoch release pre post dev, from the start of s
PublicVersion(s) ==
    LET start == Many(s, {1}, Whitespace)
    IN  Post(s, Pre(s, Release(s, Epoch(s, start \cup Ch(s, start, {"v"})))))

PEP440_REGEX(s) ==
    (Len(s) + 1) \in Many(s, Local(s, Dev(s, PublicVersion(s))), Whitespace)

_validate_version(version) == PEP440_REGEX(version)

----------------------------------------------------------------------------
(* re.compile and matcher.match for the branch patterns.  The patterns of  *)
(* the model are written with literal characters, "." and a postfix "*",   *)
(* as the patterns of BRANCH_VERSIONS are.                                 *)

\* re.compile(pattern): Some(atoms), or None where re.compile raises re.error
\* ("nothing to repeat" for a leading "*", "multiple repeat" for "**")
RECURSIVE CompileFrom(_, _, _)
CompileFrom(pattern, i, atoms) ==
    IF i > Len(pattern) THEN Some(atoms)
    ELSE IF pattern[i] = "*"
    THEN IF Len(atoms) = 0 \/ atoms[Len(atoms)].star THEN None
         ELSE CompileFrom(pattern, i + 1, [atoms EXCEPT ![Len(atoms)].star = TRUE])
    ELSE CompileFrom(pattern, i + 1, Append(atoms, [ch |-> pattern[i], star |-> FALSE]))

re_compile(pattern) == CompileFrom(pattern, 1, <<>>)

AtomMatches(atom, c) == IF atom.ch = "." THEN c # "\n" ELSE atom.ch = c

\* the end of the longest run of characters atom matches that starts at p
RECURSIVE AtomRunEnd(_, _, _)
AtomRunEnd(atom, s, p) ==
    IF p <= Len(s) /\ AtomMatches(atom, s[p]) THEN AtomRunEnd(atom, s, p + 1) ELSE p

\* the positions of s at which atoms[k..] may end when started at a position of P
RECURSIVE MatchFrom(_, _, _, _)
MatchFrom(atoms, k, s, P) ==
    IF k > Len(atoms) THEN P
    ELSE LET atom == atoms[k]
             one  == {p + 1 : p \in {q \in P : q <= Len(s) /\ AtomMatches(atom, s[q])}}
             many == UNION {p..AtomRunEnd(atom, s, p) : p \in P}
         IN  MatchFrom(atoms, k + 1, s, IF atom.star THEN many ELSE one)

\* matcher.match(s): the pattern matches at the start of s, not necessarily all of s
re_match(matcher, s) == MatchFrom(matcher, 1, s, {1}) # {}

----------------------------------------------------------------------------
(* _parse_branch_versions *)

\* lines 218-220: cut the line at its first "#", then strip it
StripComment(line) ==
    Strip(IF Find(line, 1, {"#"}) <= Len(line) THEN SubSeq(line, 1, IndexOf(line, "#") - 1)
          ELSE line)

\* ParseLines with a bug: a line that is no rule empties the table
RECURSIVE ParseLinesAborting(_, _, _)
ParseLinesAborting(lines, i, branch_versions) ==
    IF i > Len(lines) THEN branch_versions
    ELSE LET split_line == SplitWhitespace(StripComment(lines[i]))
         IN  IF Len(split_line) = 0 THEN ParseLinesAborting(lines, i + 1, branch_versions)
             ELSE IF Len(split_line) # 3 \/ IsNone(re_compile(split_line[1])) THEN <<>>
             ELSE ParseLinesAborting(lines, i + 1,
                     Append(branch_versions,
                            [matcher     |-> Get(re_compile(split_line[1])),
                             virtual_tag |-> split_line[2],
                             ref_commit  |-> split_line[3]]))

\* lines 217-234: the loop over the lines, from line i on, with the rules appended so far
RECURSIVE ParseLines(_, _, _)
ParseLines(lines, i, branch_versions) ==
    IF i > Len(lines) THEN branch_versions
    ELSE LET line == StripComment(lines[i])
             pieces == SplitWhitespace(line)
             split_line == [k \in DOMAIN pieces |-> Strip(pieces[k])]
         IN  IF line = <<>> THEN ParseLines(lines, i + 1, branch_versions)
             ELSE IF Len(split_line) = 0 THEN ParseLines(lines, i + 1, branch_versions)
             ELSE IF Len(split_line) # 3 THEN ParseLines(lines, i + 1, branch_versions)
             ELSE IF IsNone(re_compile(split_line[1]))
             THEN branch_versions   \* except Exception: break
             ELSE ParseLines(lines, i + 1,
                     Append(branch_versions,
                            [matcher     |-> Get(re_compile(split_line[1])),
                             virtual_tag |-> split_line[2],
                             ref_commit  |-> split_line[3]]))

_parse_branch_versions(BRANCH_VERSIONS) ==
    IF BRANCH_VERSIONS = <<>> THEN <<>>
    ELSE ParseLines(SplitLines(BRANCH_VERSIONS), 1, <<>>)

----------------------------------------------------------------------------
(* Module constants, lines 77-92 *)

\* "0+unknown"
FALLBACK == <<"0", "+", "u", "n", "k", "n", "o", "w", "n">>

\* "0+unknown.g{short}"
FALLBACK_WITH_SHA == <<"0", "+", "u", "n", "k", "n", "o", "w", "n", ".", "g">> \o <<"{short}">>

FALLBACK_DICT == [version |-> FALLBACK, branch |-> None, revision |-> None]

\* "__use_git__"
USE_GIT == <<"_", "_", "u", "s", "e", "_", "g", "i", "t", "_", "_">>

\* str.format: every placeholder is replaced by str() of its value
FormatValue(name, value) ==
    IF IsNone(value) THEN <<"N", "o", "n", "e">>
    ELSE IF name = "distance" THEN IntToStr(Get(value))
    ELSE Get(value)

\* "{" + x + "}" for the keys x of vars, line 288
Placeholder == [tag |-> "{tag}", distance |-> "{distance}", full |-> "{full}",
                short |-> "{short}"]

PlaceholderNames == DOMAIN Placeholder

RECURSIVE Format(_, _)
Format(template, values) ==
    IF Len(template) = 0 THEN <<>>
    ELSE LET head == template[1]
             piece == IF \E x \in PlaceholderNames : head = Placeholder[x]
                      THEN LET x == CHOOSE y \in PlaceholderNames : head = Placeholder[y]
                           IN  FormatValue(x, values[x])
                      ELSE <<head>>
         IN  piece \o Format(Tail(template), values)

----------------------------------------------------------------------------
(* The git queries, lines 178-206.  g holds the standard output of each    *)
(* query as _git returns it: None when the executable is missing or exits  *)
(* with an error, else Some(stdout).                                       *)

\* _get_dirty, lines 194-196
_get_dirty(describe) ==
    IsNone(describe) \/ EndsWith(Get(describe), <<"-", "d", "i", "r", "t", "y">>)

\* _get_distance, lines 199-206, applied to the output of rev-list --count
_get_distance(distance) ==
    IF IsNone(distance) THEN None
    ELSE IF Len(Get(distance)) > 0 /\ \A i \in DOMAIN Get(distance) : Get(distance)[i] \in Digits
    THEN Some(StrToInt(Get(distance)))
    ELSE None

----------------------------------------------------------------------------
(* _get_data_from_git, lines 243-303 *)

\* ScanRules with a bug: the loop does not break, so the last matching rule wins
RECURSIVE ScanRulesLast(_, _, _)
ScanRulesLast(lookup, i, branch) ==
    IF i > Len(lookup) THEN 0
    ELSE LET later == ScanRulesLast(lookup, i + 1, branch)
         IN  IF later # 0 THEN later
             ELSE IF re_match(lookup[i].matcher, branch) THEN i
             ELSE 0

\* lines 268-276: index of the first rule whose matcher matches branch, 0 if none
RECURSIVE ScanRules(_, _, _)
ScanRules(lookup, i, branch) ==
    IF i > Len(lookup) THEN 0
    ELSE IF ~re_match(lookup[i].matcher, branch) THEN ScanRules(lookup, i + 1, branch)
    ELSE i

\* "{tag}"
TagTemplate == <<"{tag}">>

\* TagDirty with a bug: the suffix of the branch template, ".dirty"
TagDirtyWithoutLocal == <<".", "d", "i", "r", "t", "y">>

\* "+g{short}.dirty"
TagDirty == <<"+", "g", "{short}", ".", "d", "i", "r", "t", "y">>

\* "{tag}.dev{distance}+g{short}"
BranchTemplate == <<"{tag}", ".", "d", "e", "v", "{distance}", "+", "g", "{short}">>

\* ".dirty"
BranchDirty == <<".", "d", "i", "r", "t", "y">>

\* Incomplete with a bug: any absent value counts, referenced by the template or not
IncompleteAnyNone(template, values) == \E x \in PlaceholderNames : IsNone(values[x])

\* line 288
Incomplete(template, values) ==
    \E x \in PlaceholderNames : IsNone(values[x]) /\ Placeholder[x] \in Range(template)

\* FallbackTemplate with a bug: lines 293-294 are missing
FallbackTemplateWithoutDirty(short, is_dirty) ==
    IF IsNone(short) THEN FALLBACK ELSE FALLBACK_WITH_SHA

\* lines 289-294
FallbackTemplate(short, is_dirty) ==
    (IF IsNone(short) THEN FALLBACK ELSE FALLBACK_WITH_SHA)
        \o (IF is_dirty THEN <<".", "d", "i", "r", "t", "y">> ELSE <<>>)

\* lines 278-279
WithDirty(template, dirty, is_dirty) == IF is_dirty THEN template \o dirty ELSE template

\* Validated with a bug: the version is not validated
Unvalidated(version, result) == Some(result)

\* line 297
Validated(version, result) == IF ~_validate_version(version) THEN None ELSE Some(result)

\* The whole function.  g.rev_list_tag answers rev-list for the nearest tag (line 262),
\* g.rev_list_ref answers it for locals.ref, the reference commit of the matching
\* rule (line 273).  locals are the function's local variables at line 296,
\* selected being the template before the check of line 288.
_get_data_from_git(g, BRANCH_VERSIONS) ==
    LET branch   == g.branch
        is_dirty == _get_dirty(g.describe)
        sha      == g.long
        short    == g.short
        lookup   == IF IsNone(branch) THEN <<>> ELSE _parse_branch_versions(BRANCH_VERSIONS)
        hit      == IF IsNone(branch) THEN 0 ELSE ScanRules(lookup, 1, Get(branch))
        tag      == IF hit = 0 THEN g.tag ELSE Some(lookup[hit].virtual_tag)
        ref      == IF hit = 0 THEN None ELSE Some(lookup[hit].ref_commit)   \* line 273
        distance == IF hit = 0 THEN _get_distance(g.rev_list_tag)
                    ELSE _get_distance(g.rev_list_ref)
        selected == WithDirty(IF hit = 0 THEN TagTemplate ELSE BranchTemplate,
                              IF hit = 0 THEN TagDirty ELSE BranchDirty, is_dirty)
        values   == [tag |-> tag, distance |-> distance, full |-> sha, short |-> short]
        template == IF Incomplete(selected, values) THEN FallbackTemplate(short, is_dirty)
                    ELSE selected
        version  == Format(template, values)
    IN  [result |-> Validated(version, [version |-> version, branch |-> branch,
                                        revision |-> sha]),
         locals |-> [is_dirty |-> is_dirty, lookup |-> lookup, hit |-> hit, tag |-> tag,
                     ref |-> ref, distance |-> distance, short |-> short, selected |-> selected,
                     template |-> template, version |-> version]]

----------------------------------------------------------------------------
(* _get_data_from_static_file, lines 306-315.  f.readable is whether       *)
(* open() and exec() succeed; f.data is what the file binds, None for a    *)
(* name it does not bind.                                                  *)

_get_data_from_static_file(f) ==
    IF ~f.readable THEN [raised |-> TRUE, result |-> None]              \* open() raises
    ELSE IF IsNone(f.data.version) THEN [raised |-> TRUE, result |-> None]  \* KeyError
    ELSE IF Get(f.data.version) = USE_GIT THEN [raised |-> FALSE, result |-> None]
    ELSE [raised |-> FALSE,
          result |-> Validated(Get(f.data.version),
                               [version  |-> Get(f.data.version),
                                branch   |-> f.data.branch,
                                revision |-> f.data.revision])]

----------------------------------------------------------------------------
(* _get_data_from_keywords, lines 318-356.  The function iterates over a   *)
(* set of strings to pick the branch, so it may pick any candidate: the    *)
(* operator gives the set of values the function may return.               *)

Unexpanded == <<"$", "F", "o", "r", "m", "a", "t">>

\* lines 326-329
KeywordRefs(git_refnames) ==
    LET head == <<"H", "E", "A", "D", " ", "-", ">", " ">>
        list == Split(StripChars(Strip(git_refnames), {"(", ")"}), ",")
    IN  {IF StartsWith(Strip(r), head) THEN SubSeq(Strip(r), Len(head) + 1, Len(Strip(r)))
         ELSE Strip(r) : r \in Range(list)}

\* lines 331-334
KeywordTag(refs) ==
    LET prefix == <<"t", "a", "g", ":", " ">>
        tagged == {SubSeq(r, Len(prefix) + 1, Len(r)) : r \in {q \in refs : StartsWith(q, prefix)}}
        tags   == IF tagged # {} THEN tagged
                  ELSE {r \in refs : \E i \in DOMAIN r : r[i] \in Digits}
    IN  IF tags = {} THEN None
        ELSE Some(CHOOSE t \in tags : \A u \in tags : u = t \/ StrLess(t, u))

\* lines 336-341: the values branches[0] may take
KeywordBranches(refs) ==
    LET branches == {r \in refs : /\ ~StartsWith(r, <<"t", "a", "g", ":", " ">>)
                                  /\ r # <<"H", "E", "A", "D">>
                                  /\ ~StartsWith(r, <<"r", "e", "f", "s", "/">>)}
    IN  IF branches = {} THEN {None} ELSE {Some(b) : b \in branches}

_get_data_from_keywords(git_refnames, git_full) ==
    IF StartsWith(git_refnames, Unexpanded) \/ StartsWith(git_full, Unexpanded) THEN {None}
    ELSE LET refs     == KeywordRefs(git_refnames)
             tag      == KeywordTag(refs)
             template == IF IsNone(tag) THEN FALLBACK_WITH_SHA ELSE TagTemplate
             short    == SubSeq(git_full, 1, IF Len(git_full) < 8 THEN Len(git_full) ELSE 8)
             version  == Format(template, [tag |-> tag, short |-> Some(short)])
         IN  {Validated(version, [version |-> version, branch |-> branch,
                                  revision |-> Some(git_full)]) :
                 branch \in KeywordBranches(refs)}

----------------------------------------------------------------------------
(* The environments get_data() is run in *)

\* _static_version.py: missing or unreadable; binding no version; the file of a
\* checkout ("__use_git__"); the file of a distribution ("1.9.0"); a file whose
\* version is not PEP 440 ("v1.x")
StaticFiles ==
    {[readable |-> FALSE, data |-> [version |-> None, branch |-> None, revision |-> None]],
     [readable |-> TRUE,
      data |-> [version |-> None, branch |-> Some(<<"m", "a", "s", "t", "e", "r">>), revision |-> None]],
     [readable |-> TRUE,
      data |-> [version |-> Some(USE_GIT), branch |-> None, revision |-> None]],
     [readable |-> TRUE,
      data |-> [version  |-> Some(<<"1", ".", "9", ".", "0">>),
                branch   |-> Some(<<"m", "a", "s", "t", "e", "r">>),
                revision |-> Some(<<"a", "b", "c", "1", "2", "3", "4", "d", "e", "f", "5", "6", "7", "8">>)]],
     [readable |-> TRUE,
      data |-> [version |-> Some(<<"v", "1", ".", "x">>), branch |-> None, revision |-> None]]}

\* git_refnames and git_full: unexpanded as in a checkout ("$Format:%d$",
\* "$Format:%H$"), or expanded by git archive:
\*   " (HEAD -> master, tag: 1.9.3, origin/master)",  " (HEAD -> devel)",
\*   " (tag: v1.x, refs/stash)", each with the commit id "cd955e9a46782119"
KeywordStates ==
    {[git_refnames |-> <<"$", "F", "o", "r", "m", "a", "t", ":", "%", "d", "$">>,
      git_full     |-> <<"$", "F", "o", "r", "m", "a", "t", ":", "%", "H", "$">>]}
    \cup
    {[git_refnames |-> r,
      git_full     |-> <<"c", "d", "9", "5", "5", "e", "9", "a", "4", "6", "7", "8", "2", "1", "1", "9">>] :
        r \in {<<" ", "(", "H", "E", "A", "D", " ", "-", ">", " ", "m", "a", "s", "t", "e", "r", ",", " ", "t", "a", "g", ":", " ", "1", ".", "9", ".", "3", ",", " ", "o", "r", "i", "g", "i", "n", "/", "m", "a", "s", "t", "e", "r", ")">>,
               <<" ", "(", "H", "E", "A", "D", " ", "-", ">", " ", "d", "e", "v", "e", "l", ")">>,
               <<" ", "(", "t", "a", "g", ":", " ", "v", "1", ".", "x", ",", " ", "r", "e", "f", "s", "/", "s", "t", "a", "s", "h", ")">>}}

\* Texts of BRANCH_VERSIONS:
\*   "# rules\nmaintenance 1.10.0 cd955e9\nmain.* 2.0.0 2da7aa3\n"
\*   "staging/bugfix 1.9.4 506648c pep440-dev\nfix/.* next cd955e9\n"
\*   ""
BranchVersionTexts ==
    {<<"#", " ", "r", "u", "l", "e", "s", "\n", "m", "a", "i", "n", "t", "e", "n", "a", "n", "c", "e", " ", "1", ".", "1", "0", ".", "0", " ", "c", "d", "9", "5", "5", "e", "9", "\n", "m", "a", "i", "n", ".", "*", " ", "2", ".", "0", ".", "0", " ", "2", "d", "a", "7", "a", "a", "3", "\n">>,
     <<"s", "t", "a", "g", "i", "n", "g", "/", "b", "u", "g", "f", "i", "x", " ", "1", ".", "9", ".", "4", " ", "5", "0", "6", "6", "4", "8", "c", " ", "p", "e", "p", "4", "4", "0", "-", "d", "e", "v", "\n", "f", "i", "x", "/", ".", "*", " ", "n", "e", "x", "t", " ", "c", "d", "9", "5", "5", "e", "9", "\n">>,
     <<>>}

\* rev-parse --abbrev-ref HEAD: fails, or "maintenance", "release/x", "fix/4711",
\* "my/maintenance"
BranchAnswers ==
    {None, Some(<<"m", "a", "i", "n", "t", "e", "n", "a", "n", "c", "e">>), Some(<<"r", "e", "l", "e", "a", "s", "e", "/", "x">>),
     Some(<<"f", "i", "x", "/", "4", "7", "1", "1">>),
     Some(<<"m", "y", "/", "m", "a", "i", "n", "t", "e", "n", "a", "n", "c", "e">>)}

\* describe --tags --dirty --always: fails, or "1.2.3-4-gabc1234", or
\* "1.2.3-4-gabc1234-dirty"
DescribeAnswers ==
    {None, Some(<<"1", ".", "2", ".", "3", "-", "4", "-", "g", "a", "b", "c", "1", "2", "3", "4">>),
     Some(<<"1", ".", "2", ".", "3", "-", "4", "-", "g", "a", "b", "c", "1", "2", "3", "4", "-", "d", "i", "r", "t", "y">>)}

\* rev-parse HEAD
LongAnswers == {None, Some(<<"a", "b", "c", "1", "2", "3", "4", "d", "e", "f", "5", "6", "7", "8">>)}

\* rev-parse --short HEAD
ShortAnswers == {None, Some(<<"a", "b", "c", "1", "2", "3", "4">>)}

\* describe --tags --abbrev=0 --always: fails, or the closest tag "1.2.3", or the
\* commit id "abc1234" where no tag is reachable
TagAnswers == {None, Some(<<"1", ".", "2", ".", "3">>), Some(<<"a", "b", "c", "1", "2", "3", "4">>)}

\* the largest commit count rev-list answers in the model
MaxDistance == 12

\* rev-list <ref>..HEAD --count: fails, or a count
RevListAnswers == {None} \cup {Some(IntToStr(n)) : n \in {0, 7, MaxDistance}}

NoAnswers == [branch |-> None, describe |-> None, long |-> None, short |-> None,
              tag |-> None, rev_list_tag |-> None, rev_list_ref |-> None]

\* Each query is a process of its own (lines 134-175) and fails or answers on its
\* own, so every combination of answers is an environment.
GitAnswers ==
    [branch : BranchAnswers, describe : DescribeAnswers, long : LongAnswers,
     short : ShortAnswers, tag : TagAnswers, rev_list_tag : RevListAnswers,
     rev_list_ref : RevListAnswers]

----------------------------------------------------------------------------
(* get_data, lines 373-384: one action per method called by the loop *)

NoData == [version |-> <<>>, branch |-> None, revision |-> None]

Init ==
    /\ pc = "static"
    /\ staticFile \in StaticFiles
    /\ keywords \in KeywordStates
    /\ config \in BranchVersionTexts
    /\ git = NoAnswers
    /\ consulted = <<>>
    /\ yielded = <<>>
    /\ composed = _get_data_from_git(NoAnswers, <<>>).locals
    /\ status = "running"
    /\ data = NoData
    /\ rules = <<>>

\* lines 380-382 for a method that returned result
Return(method, result) ==
    /\ consulted' = Append(consulted, method)
    /\ yielded' = Append(yielded, result)
    /\ status' = "returned"
    /\ data' = Get(result)
    /\ pc' = "done"

GetDataFromStaticFile ==
    /\ pc = "static"
    /\ LET r == _get_data_from_static_file(staticFile)
       IN  IF r.raised
           THEN /\ consulted' = Append(consulted, "static")
                /\ status' = "raised"
                /\ pc' = "done"
                /\ UNCHANGED <<yielded, data>>
           ELSE IF ~IsNone(r.result) THEN Return("static", r.result)
           ELSE /\ consulted' = Append(consulted, "static")
                /\ yielded' = Append(yielded, None)
                /\ pc' = "keywords"
                /\ UNCHANGED <<status, data>>
    /\ UNCHANGED <<staticFile, keywords, config, git, composed, rules>>

GetDataFromKeywords ==
    /\ pc = "keywords"
    /\ \E result \in _get_data_from_keywords(keywords.git_refnames, keywords.git_full) :
           IF ~IsNone(result) THEN Return("keywords", result)
           ELSE /\ consulted' = Append(consulted, "keywords")
                /\ yielded' = Append(yielded, None)
                /\ pc' = "git"
                /\ UNCHANGED <<status, data>>
    /\ UNCHANGED <<staticFile, keywords, config, git, composed, rules>>

\* the last method, and line 384 when it returns None
GetDataFromGit ==
    /\ pc = "git"
    /\ \E g \in GitAnswers : \E r \in {_get_data_from_git(g, config)} :
               /\ r.locals.hit = 0 => IsNone(g.rev_list_ref)   \* no second rev-list is run
               /\ git' = g
               /\ composed' = r.locals
               /\ IF ~IsNone(r.result) THEN Return("git", r.result)
                  ELSE /\ consulted' = Append(consulted, "git")
                       /\ yielded' = Append(yielded, None)
                       /\ status' = "returned"
                       /\ data' = FALLBACK_DICT
                       /\ pc' = "done"
    /\ UNCHANGED <<staticFile, keywords, config, rules>>

Next == GetDataFromStaticFile \/ GetDataFromKeywords \/ GetDataFromGit

Spec == Init /\ [][Next]_vars

----------------------------------------------------------------------------
(* _parse_branch_versions on its own, for every text of up to MaxLines     *)
(* lines drawn from CandidateLines                                         *)

MaxLines == 3

\*   "maintenance 1.10.0 cd955e9"
\*   "fix/.* 1.10.0 cd955e9 # fix branches"
\*   "staging/bugfix 1.9.4 506648c pep440-dev"     (4 fields, as line 55)
\*   "devel 2.0.0"                                 (2 fields)
\*   "*bad 2.0.0 2da7aa3"                          (re.compile raises)
\*   "# the first matching line wins"
\*   "   "
CandidateLines ==
    {<<"m", "a", "i", "n", "t", "e", "n", "a", "n", "c", "e", " ", "1", ".", "1", "0", ".", "0", " ", "c", "d", "9", "5", "5", "e", "9">>,
     <<"f", "i", "x", "/", ".", "*", " ", "1", ".", "1", "0", ".", "0", " ", "c", "d", "9", "5", "5", "e", "9", " ", "#", " ", "f", "i", "x", " ", "b", "r", "a", "n", "c", "h", "e", "s">>,
     <<"s", "t", "a", "g", "i", "n", "g", "/", "b", "u", "g", "f", "i", "x", " ", "1", ".", "9", ".", "4", " ", "5", "0", "6", "6", "4", "8", "c", " ", "p", "e", "p", "4", "4", "0", "-", "d", "e", "v">>,
     <<"d", "e", "v", "e", "l", " ", "2", ".", "0", ".", "0">>,
     <<"*", "b", "a", "d", " ", "2", ".", "0", ".", "0", " ", "2", "d", "a", "7", "a", "a", "3">>,
     <<"#", " ", "t", "h", "e", " ", "f", "i", "r", "s", "t", " ", "m", "a", "t", "c", "h", "i", "n", "g", " ", "l", "i", "n", "e", " ", "w", "i", "n", "s">>,
     <<" ", " ", " ">>}

RECURSIVE JoinLines(_)
JoinLines(lines) ==
    IF Len(lines) = 0 THEN <<>> ELSE lines[1] \o <<"\n">> \o JoinLines(Tail(lines))

Texts == {JoinLines(lines) : lines \in UNION {[1..n -> CandidateLines] : n \in 0..MaxLines}}

ParseInit ==
    /\ pc = "parse"
    /\ config \in Texts
    /\ rules = <<>>
    /\ staticFile = [readable |-> FALSE,
                     data |-> [version |-> None, branch |-> None, revision |-> None]]
    /\ keywords = [git_refnames |-> Unexpanded, git_full |-> Unexpanded]
    /\ git = NoAnswers
    /\ consulted = <<>>
    /\ yielded = <<>>
    /\ composed = _get_data_from_git(NoAnswers, <<>>).locals
    /\ status = "running"
    /\ data = NoData

ParseBranchVersions ==
    /\ pc = "parse"
    /\ rules' = _parse_branch_versions(config)
    /\ pc' = "parsed"
    /\ UNCHANGED <<staticFile, keywords, config, git, consulted, yielded, composed,
                   status, data>>

ParseNext == ParseBranchVersions

ParseSpec == ParseInit /\ [][ParseNext]_vars

----------------------------------------------------------------------------
(* Properties *)

\* get_data() has run through _get_data_from_git
GitRan == pc = "done" /\ Len(consulted) = 3

\* rule i of the table of line 267 matches the branch git answered
RuleMatches(i) == re_match(composed.lookup[i].matcher, Get(git.branch))

\* the branch is absent or matches no rule of the table
NoRuleMatches == IsNone(git.branch) \/ \A i \in DOMAIN composed.lookup : ~RuleMatches(i)

\* rule i is the first rule of the table that matches the branch
FirstMatchingRule(i) ==
    /\ ~IsNone(git.branch)
    /\ i \in DOMAIN composed.lookup
    /\ RuleMatches(i)
    /\ \A j \in 1..(i - 1) : ~RuleMatches(j)

DotDirty == <<".", "d", "i", "r", "t", "y">>

\* the static file binds a version that is neither the sentinel nor PEP 440
StaticVersionInvalid ==
    /\ staticFile.readable
    /\ ~IsNone(staticFile.data.version)
    /\ Get(staticFile.data.version) # USE_GIT
    /\ ~_validate_version(Get(staticFile.data.version))

\* C1: whatever the static file, the keyword markers and the git answers are, the
\* version of the VersionData that get_data() returns satisfies the PEP 440
\* validator, and a method whose candidate version fails validation has yielded
\* nothing.
C1_ReturnedVersionIsValid ==
    /\ status = "returned" => _validate_version(data.version)
    /\ \A i \in DOMAIN yielded :
           ~IsNone(yielded[i]) => _validate_version(Get(yielded[i]).version)
    /\ (Len(yielded) >= 1 /\ StaticVersionInvalid) => IsNone(yielded[1])

\* C1 witness: the static file holds a version that is not PEP 440, was passed
\* over, and the git checkout gave the version that was returned
C1_Witness ==
    /\ GitRan
    /\ StaticVersionInvalid
    /\ ~IsNone(yielded[3])
    /\ status = "returned"
    /\ data = Get(yielded[3])

\* C2 (as claimed): get_data() always ends by returning a VersionData; no error
\* leaves it, also when the static file is absent, unreadable or binds no version.
C2_AlwaysReturns == pc = "done" => status = "returned"

\* C3 (as claimed): the methods are called in the order static file, keywords, git;
\* the result of the first that yields a validated VersionData is returned and no
\* later method is called; a static file with the sentinel or a version that is
\* not PEP 440 yields nothing; the fallback is returned only when all three
\* yielded nothing.
C3_FirstSourceWins ==
    pc = "done" =>
        /\ status = "returned"
        /\ consulted = SubSeq(<<"static", "keywords", "git">>, 1, Len(consulted))
        /\ Len(yielded) = Len(consulted)
        /\ \A i \in 1..(Len(yielded) - 1) : IsNone(yielded[i])
        /\ ~IsNone(yielded[Len(yielded)]) => data = Get(yielded[Len(yielded)])
        /\ IsNone(yielded[Len(yielded)]) => Len(consulted) = 3 /\ data = FALLBACK_DICT
        /\ ( \/ StaticVersionInvalid
             \/ staticFile.readable /\ staticFile.data.version = Some(USE_GIT) )
           => IsNone(yielded[1])

\* the fields of a line of the rule text, as the documented format sees them
LineFields(line) == SplitWhitespace(StripComment(line))

\* a line that is neither empty nor a rule: a field count other than 0 and 3, or a
\* first field that is no regular expression
Malformed(line) ==
    \/ Len(LineFields(line)) \notin {0, 3}
    \/ Len(LineFields(line)) = 3 /\ IsNone(re_compile(LineFields(line)[1]))

\* a line of three fields whose first field is no regular expression
Uncompilable(line) ==
    Len(LineFields(line)) = 3 /\ IsNone(re_compile(LineFields(line)[1]))

\* C4 (as claimed): if any line of the text is malformed, the parsed table is empty.
C4_MalformedLineEmptiesTable ==
    (pc = "parsed" /\ \E i \in DOMAIN SplitLines(config) : Malformed(SplitLines(config)[i]))
        => rules = <<>>

\* the rules of the lines of three fields before the first uncompilable line
RulesBeforeFirstUncompilable(text) ==
    LET lines == SplitLines(text)
        stop  == IF \E i \in DOMAIN lines : Uncompilable(lines[i])
                 THEN CHOOSE i \in DOMAIN lines :
                          Uncompilable(lines[i]) /\ \A j \in 1..(i - 1) : ~Uncompilable(lines[j])
                 ELSE Len(lines) + 1
        kept  == SelectSeq([i \in 1..(stop - 1) |-> LineFields(lines[i])],
                           LAMBDA fields : Len(fields) = 3)
    IN  [k \in DOMAIN kept |-> [matcher     |-> Get(re_compile(kept[k][1])),
                                virtual_tag |-> kept[k][2],
                                ref_commit  |-> kept[k][3]]]

\* C4 (amended): a line whose field count is neither 0 nor 3 is skipped and parsing
\* goes on with the next line; a line of 3 fields whose first field does not
\* compile stops parsing, later lines are not parsed, and the table keeps, in line
\* order, the rules of the 3-field lines before it.
C4_SkipsOrStopsKeepingEarlierRules ==
    pc = "parsed" => rules = RulesBeforeFirstUncompilable(config)

\* C4 witness: a valid rule followed by a 2-field line, and another text with a
\* valid rule followed by an uncompilable line, each leave a table of one rule
C4_Witness ==
    /\ pc = "parsed"
    /\ Len(SplitLines(config)) = 2
    /\ Len(LineFields(SplitLines(config)[1])) = 3
    /\ ~Malformed(SplitLines(config)[1])
    /\ Len(LineFields(SplitLines(config)[2])) = 2
    /\ Len(rules) = 1

\* C5: when the branch is present and rule i is the first rule that matches it, the
\* distance is asked for rule i's reference commit and, with that distance d and
\* the short id s present, the version is "<virtual_tag>.dev<d>+g<s>", with
\* ".dirty" appended when the tree is dirty; it is the version returned when it is
\* PEP 440.  Later matching rules and the nearest tag do not enter.
C5_FirstMatchingRuleDecides ==
    GitRan =>
        \A i \in DOMAIN composed.lookup :
            FirstMatchingRule(i) =>
                /\ composed.ref = Some(composed.lookup[i].ref_commit)
                /\ composed.distance = _get_distance(git.rev_list_ref)
                /\ (~IsNone(composed.distance) /\ ~IsNone(git.short)) =>
                       LET expected ==
                               composed.lookup[i].virtual_tag \o <<".", "d", "e", "v">>
                                   \o IntToStr(Get(composed.distance)) \o <<"+", "g">>
                                   \o Get(git.short)
                                   \o (IF _get_dirty(git.describe) THEN DotDirty ELSE <<>>)
                       IN  /\ composed.version = expected
                           /\ _validate_version(expected) =>
                                  status = "returned" /\ data.version = expected

\* C5 witness: branch "maintenance" matches the rules "maintenance 1.10.0 ..." and
\* "main.* 2.0.0 ...", the distance is 7, the short id abc1234, the tree clean (and
\* the nearest tag 1.2.3): the version returned is "1.10.0.dev7+gabc1234"
C5_Witness ==
    /\ GitRan
    /\ FirstMatchingRule(1)
    /\ Len(composed.lookup) = 2
    /\ RuleMatches(2)
    /\ git.tag = Some(<<"1", ".", "2", ".", "3">>)
    /\ ~_get_dirty(git.describe)
    /\ status = "returned"
    /\ data.version = <<"1", ".", "1", "0", ".", "0", ".", "d", "e", "v", "7", "+", "g", "a", "b", "c", "1", "2", "3", "4">>

\* C6 (as claimed): when the tree is dirty and the version comes from the closest
\* tag (no rule matches), the version is the tag with ".post<distance>.dev0"
\* appended.
C6_DirtyTagGetsPostDev ==
    (GitRan /\ NoRuleMatches /\ ~IsNone(git.describe) /\ _get_dirty(git.describe)
        /\ ~IsNone(git.tag) /\ ~IsNone(git.short) /\ ~IsNone(_get_distance(git.rev_list_tag)))
    => composed.version =
           Get(git.tag) \o <<".", "p", "o", "s", "t">>
               \o IntToStr(Get(_get_distance(git.rev_list_tag))) \o <<".", "d", "e", "v", "0">>

\* C7 (as claimed): when the static file and the keywords give nothing and every git
\* query fails, get_data() returns the version "0+unknown".
C7_AllQueriesFailGivesUnknown ==
    (GitRan /\ git = NoAnswers) => (status = "returned" /\ data.version = FALLBACK)

\* a placeholder that the selected template (dirty suffix appended) refers to has
\* no value
SelectedLacksValue ==
    \/ IsNone(composed.tag) /\ "{tag}" \in Range(composed.selected)
    \/ IsNone(composed.distance) /\ "{distance}" \in Range(composed.selected)
    \/ IsNone(composed.short) /\ "{short}" \in Range(composed.selected)

\* C8: whenever the selected template refers to an absent value, the rendered
\* version is "0+unknown.g<short>" if short is present and "0+unknown" otherwise,
\* followed by ".dirty" exactly when the tree is dirty.
C8_IncompleteTemplateFallsBack ==
    (GitRan /\ SelectedLacksValue) =>
        composed.version =
            (IF IsNone(git.short) THEN <<"0", "+", "u", "n", "k", "n", "o", "w", "n">>
             ELSE <<"0", "+", "u", "n", "k", "n", "o", "w", "n", ".", "g">> \o Get(git.short))
            \o (IF _get_dirty(git.describe) THEN DotDirty ELSE <<>>)

\* C8 witness: a rule matches, the distance is absent, the tree is dirty and short
\* is abc1234: the version is "0+unknown.gabc1234.dirty"
C8_Witness ==
    /\ GitRan
    /\ composed.hit # 0
    /\ IsNone(composed.distance)
    /\ _get_dirty(git.describe)
    /\ composed.version = <<"0", "+", "u", "n", "k", "n", "o", "w", "n", ".", "g", "a", "b", "c", "1", "2", "3", "4", ".", "d", "i", "r", "t", "y">>

PublicTag(t) == (Len(t) + 1) \in PublicVersion(t)

C10_CleanUnmatchedIsNearestTag ==
    (GitRan /\ NoRuleMatches /\ ~_get_dirty(git.describe) /\ ~IsNone(git.tag)) =>
        /\ composed.version = Get(git.tag)
        /\ _validate_version(Get(git.tag)) =>
               status = "returned" /\ data.version = Get(git.tag)

\* C10 witness: branch "release/x" matches no rule, the nearest tag is 1.2.3, the
\* tree is clean, rev-list failed: the version returned is "1.2.3"
C10_Witness ==
    /\ GitRan
    /\ git.branch = Some(<<"r", "e", "l", "e", "a", "s", "e", "/", "x">>)
    /\ Len(composed.lookup) > 0
    /\ ~_get_dirty(git.describe)
    /\ IsNone(git.rev_list_tag)
    /\ IsNone(composed.distance)
    /\ data.version = <<"1", ".", "2", ".", "3">>

====
